---- MODULE Spec2Model ----
(***************************************************************************)
(* Model of pdf2img.py: PDFConverterApp.start_conversion and               *)
(* PDFConverterApp.pdf_to_vertical_image_with_gui_updates.                 *)
(*                                                                         *)
(* The document library (fitz) and the image library (PIL) are the         *)
(* environment: whether fitz.open succeeds, how many pages the document    *)
(* has, whether a page holds images, whether a page renders and at which   *)
(* pixel size, and whether the final save succeeds are chosen by the       *)
(* environment when the code asks.  What the environment answered is kept  *)
(* in the *_log variables, which the code never reads.                     *)
(***************************************************************************)
EXTENDS Integers, Sequences, FiniteSets, TLC

\* ------------------------------------------------------------- bounds
MaxPages  == 3
MaxWidth  == 3
MaxHeight == 2

\* Texts a user can have in the DPI entry (a text is a sequence of characters).
DpiEntries ==
  { <<"1","5","0">>, <<"0">>, <<"-","5">>, <<"a","b","c">>,
    <<>>, <<"1","5","a">>, <<"-">>, <<"+","0">> }

PdfFiles == {"a.pdf"}
OutputFiles == {"a_combined.png"}

\* ------------------------------------------------------------- state
VARIABLES
  \* widgets of PDFConverterApp
  pdf_path_var, output_path_var, dpi_var, only_images_var,
  convert_button, progress_var, status_var, messagebox,
  \* position in start_conversion / the pipeline
  pc,
  \* arguments and locals of pdf_to_vertical_image_with_gui_updates
  dpi, only_pages_with_images, doc, page_count, scan_num,
  pages_to_process, num_pages_to_render, render_idx,
  page_images, total_height, max_width, rendered_page_count,
  final_image, current_y, paste_idx, saved, error,
  \* what the environment answered and what was written, per conversion
  scan_log, render_log, paste_log, progress_log, status_log, save_attempts

uiVars == <<pdf_path_var, output_path_var, dpi_var, only_images_var,
            convert_button, progress_var, status_var, messagebox>>
locals == <<dpi, only_pages_with_images, doc, page_count, scan_num,
            pages_to_process, num_pages_to_render, render_idx,
            page_images, total_height, max_width, rendered_page_count,
            final_image, current_y, paste_idx, saved, error>>
logs == <<scan_log, render_log, paste_log, progress_log, status_log, save_attempts>>
vars == <<uiVars, pc, locals, logs>>

\* ------------------------------------------------------------- values
NoImage == [width |-> -1, height |-> -1]

\* A status message: its kind and up to two numbers it names.
Msg(kind, a, b) == [kind |-> kind, a |-> a, b |-> b]

\* Progress values are exact fractions n/d (the code uses floats).
Frac(n, d) == [n |-> n, d |-> d]
FracLeq(x, y) == x.n * y.d <= y.n * x.d
FracEq(x, y) == x.n * y.d = y.n * x.d

\* ------------------------------------------------------------- int(dpi_str)
Digits == {"0","1","2","5","7"}

DigitValue(c) ==
  CASE c = "0" -> 0 [] c = "1" -> 1 [] c = "2" -> 2 [] c = "5" -> 5 [] c = "7" -> 7

RECURSIVE DigitsValue(_)
DigitsValue(s) ==
  IF s = <<>> THEN 0
  ELSE 10 * DigitsValue(SubSeq(s, 1, Len(s) - 1)) + DigitValue(s[Len(s)])

HasSign(s) == Len(s) > 0 /\ s[1] \in {"-", "+"}
Unsigned(s) == IF HasSign(s) THEN Tail(s) ELSE s

\* int(s) raises ValueError unless s is an optional sign and one or more digits.
IntParses(s) ==
  /\ Len(Unsigned(s)) > 0
  /\ \A i \in 1..Len(Unsigned(s)) : Unsigned(s)[i] \in Digits

IntValue(s) ==
  IF Len(s) > 0 /\ s[1] = "-" THEN 0 - DigitsValue(Unsigned(s))
  ELSE DigitsValue(Unsigned(s))

DpiAccepted_zero_ok(s) == IntParses(s) /\ ~(IntValue(s) < 0)

\* try: dpi = int(dpi_str); if dpi <= 0: raise ValueError
DpiAccepted(s) == IntParses(s) /\ ~(IntValue(s) <= 0)

\* ------------------------------------------------------------- helpers
\* os.path.join(dirname, splitext(basename)[0] + "_combined.png")
SuggestedOutput(path) == IF path = "a.pdf" THEN "a_combined.png" ELSE "combined.png"

\* list(range(n))
AllPages(n) == [i \in 1..n |-> i - 1]

ScanAppend_always(ptp, page_num, has_images) == Append(ptp, page_num)

\* if page.get_images(full=True): pages_to_process.append(page_num)
ScanAppend(ptp, page_num, has_images) ==
  IF has_images THEN Append(ptp, page_num) ELSE ptp

NewMaxWidth_last(mw, w) == w

\* if img.width > max_width: max_width = img.width
NewMaxWidth(mw, w) == IF w > mw THEN w ELSE mw

NewTotalHeight(th, h) == th + h

RenderProgress_full(rendered, n) == Frac(rendered * 100, n)

\* (rendered_page_count / num_pages_to_render) * 100 * 0.9
RenderProgress(rendered, n) == Frac(rendered * 90, n)

NoneRendered_unchecked(imgs) == FALSE

\* if not page_images
NoneRendered(imgs) == imgs = <<>>

XOffset_swapped(mw, w) == (w - mw) \div 2

\* x_offset = (max_width - img.width) // 2
XOffset(mw, w) == (mw - w) \div 2

NextY_width(y, img) == y + img.width

\* current_y += img.height
NextY(y, img) == y + img.height

\* ------------------------------------------------------------- Init
FreshLocals ==
  /\ dpi = 0
  /\ only_pages_with_images = FALSE
  /\ doc = "none"
  /\ page_count = 0
  /\ scan_num = 0
  /\ pages_to_process = <<>>
  /\ num_pages_to_render = 0
  /\ render_idx = 1
  /\ page_images = <<>>
  /\ total_height = 0
  /\ max_width = 0
  /\ rendered_page_count = 0
  /\ final_image = NoImage
  /\ current_y = 0
  /\ paste_idx = 1
  /\ saved = FALSE
  /\ error = "none"

FreshLogs ==
  /\ scan_log = <<>>
  /\ render_log = <<>>
  /\ paste_log = <<>>
  /\ progress_log = <<>>
  /\ status_log = <<>>
  /\ save_attempts = 0

Init ==
  /\ pdf_path_var = ""
  /\ output_path_var = ""
  /\ dpi_var = <<"1","5","0">>
  /\ only_images_var = FALSE
  /\ convert_button = "normal"
  /\ progress_var = Frac(0, 1)
  /\ status_var = Msg("Ready", 0, 0)
  /\ messagebox = "none"
  /\ pc = "idle"
  /\ FreshLocals
  /\ FreshLogs

\* ------------------------------------------------------------- widgets
\* update_status(message), once per message of msgs, inside the pipeline
SetStatus(msgs) ==
  /\ status_var' = msgs[Len(msgs)]
  /\ status_log' = status_log \o msgs

\* progress_var.set(value)
SetProgress(value) ==
  /\ progress_var' = value
  /\ progress_log' = Append(progress_log, value)

browse_pdf ==
  /\ pc = "idle"
  /\ \E file_path \in PdfFiles \cup {""} :
       IF file_path # ""
       THEN /\ pdf_path_var' = file_path
            /\ output_path_var' = SuggestedOutput(file_path)
            /\ status_var' = Msg("SelectedPDF", 0, 0)
       ELSE UNCHANGED <<pdf_path_var, output_path_var, status_var>>
  /\ UNCHANGED <<dpi_var, only_images_var, convert_button, progress_var, messagebox,
                 pc, locals, logs>>

browse_output ==
  /\ pc = "idle"
  /\ \E file_path \in OutputFiles \cup {""} :
       IF file_path # ""
       THEN /\ output_path_var' = file_path
            /\ status_var' = Msg("OutputTo", 0, 0)
       ELSE UNCHANGED <<output_path_var, status_var>>
  /\ UNCHANGED <<pdf_path_var, dpi_var, only_images_var, convert_button, progress_var,
                 messagebox, pc, locals, logs>>

\* The user types into the DPI entry.
edit_dpi ==
  /\ pc = "idle"
  /\ \E text \in DpiEntries : dpi_var' = text
  /\ UNCHANGED <<pdf_path_var, output_path_var, only_images_var, convert_button,
                 progress_var, status_var, messagebox, pc, locals, logs>>

\* The user toggles "Only include pages with images".
toggle_only_images ==
  /\ pc = "idle"
  /\ only_images_var' = ~only_images_var
  /\ UNCHANGED <<pdf_path_var, output_path_var, dpi_var, convert_button,
                 progress_var, status_var, messagebox, pc, locals, logs>>

\* ------------------------------------------------------------- start_conversion
RejectedWith(box) ==
  /\ messagebox' = box
  /\ UNCHANGED <<pdf_path_var, output_path_var, dpi_var, only_images_var,
                 convert_button, progress_var, status_var, pc, locals, logs>>

\* Lines 134-161: validation, then the widgets are set and the pipeline is called.
\* The message boxes are modal, so none is showing once processing starts.
start_conversion ==
  /\ pc = "idle"
  /\ IF pdf_path_var = "" THEN RejectedWith("error_no_pdf")
     ELSE IF output_path_var = "" THEN RejectedWith("error_no_output")
     ELSE IF ~DpiAccepted(dpi_var) THEN RejectedWith("error_invalid_dpi")
     ELSE /\ status_var' = Msg("Processing", 0, 0)
          /\ status_log' = <<Msg("Processing", 0, 0)>>
          /\ convert_button' = "disabled"
          /\ progress_var' = Frac(0, 1)
          /\ progress_log' = <<Frac(0, 1)>>
          /\ dpi' = IntValue(dpi_var)
          /\ only_pages_with_images' = only_images_var
          /\ messagebox' = "none"
          /\ pc' = "open"
          /\ UNCHANGED <<pdf_path_var, output_path_var, dpi_var, only_images_var,
                         doc, page_count, scan_num, pages_to_process,
                         num_pages_to_render, render_idx, page_images, total_height,
                         max_width, rendered_page_count, final_image, current_y,
                         paste_idx, saved, error, scan_log, render_log, paste_log,
                         save_attempts>>

\* The pipeline's frame is gone once start_conversion has handled its outcome.
DropLocals ==
  /\ dpi' = 0
  /\ only_pages_with_images' = FALSE
  /\ doc' = "none"
  /\ page_count' = 0
  /\ scan_num' = 0
  /\ pages_to_process' = <<>>
  /\ num_pages_to_render' = 0
  /\ render_idx' = 1
  /\ page_images' = <<>>
  /\ total_height' = 0
  /\ max_width' = 0
  /\ rendered_page_count' = 0
  /\ final_image' = NoImage
  /\ current_y' = 0
  /\ paste_idx' = 1
  /\ saved' = FALSE
  /\ error' = "none"
  /\ scan_log' = <<>>
  /\ render_log' = <<>>
  /\ paste_log' = <<>>
  /\ progress_log' = <<>>
  /\ status_log' = <<>>
  /\ save_attempts' = 0

\* Lines 162-163 and the finally clause, 167-169.
finish_success ==
  /\ pc = "returned"
  /\ messagebox' = "success"
  /\ status_var' = Msg("Complete", 0, 0)
  /\ convert_button' = "normal"
  /\ progress_var' = Frac(0, 1)
  /\ pc' = "idle"
  /\ DropLocals
  /\ UNCHANGED <<pdf_path_var, output_path_var, dpi_var, only_images_var>>

\* Lines 164-166 and the finally clause, 167-169.
finish_error ==
  /\ pc = "raised"
  /\ messagebox' = "conversion_error"
  /\ status_var' = Msg("Error", 0, 0)
  /\ convert_button' = "normal"
  /\ progress_var' = Frac(0, 1)
  /\ pc' = "idle"
  /\ DropLocals
  /\ UNCHANGED <<pdf_path_var, output_path_var, dpi_var, only_images_var>>

\* ------------------------------------------------------------- the pipeline
\* The pipeline raises: the exception leaves the function, locals as they are.
Raise(kind) ==
  /\ error' = kind
  /\ pc' = "raised"

DocAfterRenderLoop_left_open == "open"

\* Line 243: doc.close() after the render loop.
DocAfterRenderLoop == "closed"

\* Lines 203-209, with pages_to_process already chosen (ptp) and the status
\* messages emitted so far in this step (msgs).
EnterRenderLoop(ptp, msgs) ==
  /\ pages_to_process' = ptp
  /\ num_pages_to_render' = Len(ptp)
  /\ IF Len(ptp) = 0
     THEN /\ doc' = "closed"
          /\ Raise("NoPagesSelected")
          /\ SetStatus(msgs)
     ELSE /\ SetStatus(msgs \o <<Msg("ProcessingPages", Len(ptp), 0)>>)
          /\ pc' = "render"
          /\ UNCHANGED <<doc, error>>

\* Lines 175-184: open the document and reject an empty one.
open_document ==
  /\ pc = "open"
  /\ \E opened \in BOOLEAN, n \in 0..MaxPages :
       IF ~opened
       THEN /\ n = 0
            /\ Raise("CannotOpenSource")
            /\ UNCHANGED <<doc, page_count, status_var, status_log>>
       ELSE IF n = 0
       THEN /\ doc' = "closed"
            /\ page_count' = 0
            /\ Raise("EmptySource")
            /\ UNCHANGED <<status_var, status_log>>
       ELSE /\ doc' = "open"
            /\ page_count' = n
            /\ SetStatus(<<Msg("Scanning", n, 0)>>)
            /\ pc' = "select"
            /\ UNCHANGED error
  /\ UNCHANGED <<pdf_path_var, output_path_var, dpi_var, only_images_var, convert_button,
                 progress_var, messagebox, dpi, only_pages_with_images, scan_num,
                 pages_to_process, num_pages_to_render,
                 render_idx, page_images, total_height, max_width, rendered_page_count,
                 final_image, current_y, paste_idx, saved,
                 scan_log, render_log, paste_log, progress_log, save_attempts>>

\* Lines 186-188 (filter on: start the scan) or 200-209 (filter off: every page).
select_pages ==
  /\ pc = "select"
  /\ IF only_pages_with_images
     THEN /\ SetStatus(<<Msg("Filtering", 0, 0)>>)
          /\ scan_num' = 0
          /\ pc' = "scan"
          /\ UNCHANGED <<pages_to_process, num_pages_to_render, doc, error>>
     ELSE /\ EnterRenderLoop(AllPages(page_count), <<>>)
          /\ UNCHANGED scan_num
  /\ UNCHANGED <<pdf_path_var, output_path_var, dpi_var, only_images_var, convert_button,
                 progress_var, messagebox, dpi, only_pages_with_images, page_count,
                 render_idx, page_images, total_height, max_width, rendered_page_count,
                 final_image, current_y, paste_idx, saved,
                 scan_log, render_log, paste_log, progress_log, save_attempts>>

\* Lines 189-192, one iteration: load_page and get_images may raise, and nothing
\* catches it here.
scan_page ==
  /\ pc = "scan"
  /\ scan_num < page_count
  /\ \E outcome \in {"images", "no_images", "raises"} :
       /\ scan_log' = Append(scan_log, [page |-> scan_num, outcome |-> outcome])
       /\ IF outcome = "raises"
          THEN /\ Raise("ScanFailure")
               /\ UNCHANGED <<pages_to_process, scan_num>>
          ELSE /\ pages_to_process' =
                    ScanAppend(pages_to_process, scan_num, outcome = "images")
               /\ scan_num' = scan_num + 1
               /\ UNCHANGED <<pc, error>>
  /\ UNCHANGED <<uiVars, dpi, only_pages_with_images, doc, page_count,
                 num_pages_to_render, render_idx, page_images, total_height,
                 max_width, rendered_page_count, final_image, current_y, paste_idx,
                 saved, render_log, paste_log, progress_log, status_log, save_attempts>>

\* Lines 196-199 and 203-209, after the scan loop.
scan_done ==
  /\ pc = "scan"
  /\ scan_num = page_count
  /\ IF pages_to_process = <<>>
     THEN /\ doc' = "closed"
          /\ Raise("NoMatchingPages")
          /\ UNCHANGED <<pages_to_process, num_pages_to_render, status_var, status_log>>
     ELSE EnterRenderLoop(pages_to_process, <<Msg("Found", Len(pages_to_process), 0)>>)
  /\ UNCHANGED <<pdf_path_var, output_path_var, dpi_var, only_images_var, convert_button,
                 progress_var, messagebox, dpi, only_pages_with_images, page_count,
                 scan_num, render_idx, page_images, total_height, max_width,
                 rendered_page_count, final_image, current_y, paste_idx, saved,
                 scan_log, render_log, paste_log, progress_log, save_attempts>>

\* Lines 218-235: the page renders to an image of w x h pixels.
render_ok(w, h) ==
  LET page_num == pages_to_process[render_idx]
      img == [page |-> page_num, width |-> w, height |-> h]
  IN /\ render_log' = Append(render_log, [page |-> page_num, ok |-> TRUE,
                                           width |-> w, height |-> h])
     /\ page_images' = Append(page_images, img)
     /\ total_height' = NewTotalHeight(total_height, img.height)
     /\ max_width' = NewMaxWidth(max_width, img.width)
     /\ rendered_page_count' = rendered_page_count + 1
     /\ SetProgress(RenderProgress(rendered_page_count + 1, num_pages_to_render))
     /\ SetStatus(<<Msg("Rendered", rendered_page_count + 1, page_num + 1)>>)
     /\ render_idx' = render_idx + 1
     /\ UNCHANGED <<pc, error>>

render_failed_aborts ==
  LET page_num == pages_to_process[render_idx]
  IN /\ render_log' = Append(render_log, [page |-> page_num, ok |-> FALSE,
                                           width |-> 0, height |-> 0])
     /\ Raise("PageRenderFailure")
     /\ UNCHANGED <<page_images, total_height, max_width, rendered_page_count,
                    progress_var, progress_log, status_var, status_log, render_idx>>

\* Lines 218-222 raise; lines 237-241: report the page and continue.
render_failed ==
  LET page_num == pages_to_process[render_idx]
  IN /\ render_log' = Append(render_log, [page |-> page_num, ok |-> FALSE,
                                           width |-> 0, height |-> 0])
     /\ SetStatus(<<Msg("ErrorSkip", page_num + 1, 0)>>)
     /\ render_idx' = render_idx + 1
     /\ UNCHANGED <<page_images, total_height, max_width, rendered_page_count,
                    progress_var, progress_log, pc, error>>

\* Lines 216-241, one iteration of the render loop.
render_page ==
  /\ pc = "render"
  /\ render_idx <= Len(pages_to_process)
  /\ \/ \E w \in 1..MaxWidth, h \in 1..MaxHeight : render_ok(w, h)
     \/ render_failed
  /\ UNCHANGED <<pdf_path_var, output_path_var, dpi_var, only_images_var, convert_button,
                 messagebox, dpi, only_pages_with_images, doc, page_count, scan_num,
                 pages_to_process, num_pages_to_render, final_image, current_y,
                 paste_idx, saved, scan_log, paste_log, save_attempts>>

\* Lines 243-249: close the document; give up if nothing rendered.
close_document ==
  /\ pc = "render"
  /\ render_idx > Len(pages_to_process)
  /\ doc' = DocAfterRenderLoop
  /\ IF NoneRendered(page_images)
     THEN /\ Raise("NoPagesRendered")
          /\ UNCHANGED <<progress_var, progress_log, status_var, status_log>>
     ELSE /\ SetStatus(<<Msg("Creating", max_width, total_height)>>)
          /\ SetProgress(Frac(95, 1))
          /\ pc' = "create"
          /\ UNCHANGED error
  /\ UNCHANGED <<pdf_path_var, output_path_var, dpi_var, only_images_var, convert_button,
                 messagebox, dpi, only_pages_with_images, page_count, scan_num,
                 pages_to_process, num_pages_to_render, render_idx, page_images,
                 total_height, max_width, rendered_page_count, final_image, current_y,
                 paste_idx, saved, scan_log, render_log, paste_log, save_attempts>>

\* Lines 251-253: Image.new("RGB", (max_width, total_height), white); current_y = 0.
create_canvas ==
  /\ pc = "create"
  /\ final_image' = [width |-> max_width, height |-> total_height]
  /\ current_y' = 0
  /\ paste_idx' = 1
  /\ pc' = "paste"
  /\ UNCHANGED <<uiVars, dpi, only_pages_with_images, doc, page_count, scan_num,
                 pages_to_process, num_pages_to_render, render_idx, page_images,
                 total_height, max_width, rendered_page_count, saved, error, logs>>

\* Lines 254-257, one iteration of the paste loop.
paste_page ==
  /\ pc = "paste"
  /\ paste_idx <= Len(page_images)
  /\ LET img == page_images[paste_idx]
         x_offset == XOffset(max_width, img.width)
     IN /\ paste_log' = Append(paste_log, [page |-> img.page, x |-> x_offset,
                                            y |-> current_y, width |-> img.width,
                                            height |-> img.height])
        /\ current_y' = NextY(current_y, img)
  /\ paste_idx' = paste_idx + 1
  /\ UNCHANGED <<uiVars, pc, dpi, only_pages_with_images, doc, page_count, scan_num,
                 pages_to_process, num_pages_to_render, render_idx, page_images,
                 total_height, max_width, rendered_page_count, final_image, saved,
                 error, scan_log, render_log, progress_log, status_log, save_attempts>>

\* Lines 259-264: save the image; progress reaches 100 only if the save worked.
save_image ==
  /\ pc = "paste"
  /\ paste_idx > Len(page_images)
  /\ save_attempts' = save_attempts + 1
  /\ SetStatus(<<Msg("Saving", 0, 0)>>)
  /\ \E written \in BOOLEAN :
       IF written
       THEN /\ saved' = TRUE
            /\ SetProgress(Frac(100, 1))
            /\ pc' = "returned"
            /\ UNCHANGED error
       ELSE /\ Raise("CannotWriteDestination")
            /\ UNCHANGED <<saved, progress_var, progress_log>>
  /\ UNCHANGED <<pdf_path_var, output_path_var, dpi_var, only_images_var, convert_button,
                 messagebox, dpi, only_pages_with_images, doc, page_count, scan_num,
                 pages_to_process, num_pages_to_render, render_idx, page_images,
                 total_height, max_width, rendered_page_count, final_image, current_y,
                 paste_idx, scan_log, render_log, paste_log>>

\* ------------------------------------------------------------- specification
Next ==
  \/ browse_pdf
  \/ browse_output
  \/ edit_dpi
  \/ toggle_only_images
  \/ start_conversion
  \/ open_document
  \/ select_pages
  \/ scan_page
  \/ scan_done
  \/ render_page
  \/ close_document
  \/ create_canvas
  \/ paste_page
  \/ save_image
  \/ finish_success
  \/ finish_error

Spec == Init /\ [][Next]_vars

\* ------------------------------------------------------------- vocabulary
PagesOf(seq) == [i \in 1..Len(seq) |-> seq[i].page]

Rendered(entry) == entry.ok

\* The render attempts that produced an image, in the order they were made.
RenderedEntries == SelectSeq(render_log, Rendered)

RECURSIVE SumHeights(_)
SumHeights(seq) ==
  IF seq = <<>> THEN 0 ELSE seq[1].height + SumHeights(Tail(seq))

WidestOf(seq) ==
  IF seq = <<>> THEN 0
  ELSE CHOOSE w \in {seq[i].width : i \in 1..Len(seq)} :
         \A j \in 1..Len(seq) : seq[j].width <= w

StrictlyAscending(seq) ==
  \A i \in 1..Len(seq) : \A j \in 1..Len(seq) : i < j => seq[i] < seq[j]

CountOf(seq, x) == Cardinality({i \in 1..Len(seq) : seq[i] = x})

\* The render loop is over: every selected page has had its turn.
AfterRenderLoop ==
  \/ pc \in {"create", "paste", "returned"}
  \/ pc = "raised" /\ error \in {"NoPagesRendered", "CannotWriteDestination"}

\* The paste loop is over.
AfterPasteLoop ==
  \/ pc = "paste" /\ paste_idx > Len(page_images)
  \/ pc = "returned"
  \/ pc = "raised" /\ error = "CannotWriteDestination"

PipelineEnded == pc \in {"returned", "raised"}

\* ------------------------------------------------------------- claims

\* C1: a page that fails to render never aborts the conversion: it is skipped
\* without a retry, one status update names its 1-based page number, every later
\* selected page is still attempted exactly once, and the composite holds exactly
\* the rendered pages in ascending original order.
C1_RenderFailureIsSkipped ==
  /\ PagesOf(render_log) = SubSeq(pages_to_process, 1, Len(render_log))
  /\ (pc = "render" => Len(render_log) = render_idx - 1)
  /\ (pc = "raised" /\ render_log # <<>> =>
        error \in {"NoPagesRendered", "CannotWriteDestination"})
  /\ (AfterRenderLoop => Len(render_log) = Len(pages_to_process))
  /\ \A i \in 1..Len(render_log) :
       CountOf(status_log, Msg("ErrorSkip", render_log[i].page + 1, 0))
         = IF render_log[i].ok THEN 0 ELSE 1
  /\ PagesOf(page_images) = PagesOf(RenderedEntries)
  /\ (AfterRenderLoop /\ RenderedEntries # <<>> => error # "NoPagesRendered")
  /\ (AfterPasteLoop =>
        /\ PagesOf(paste_log) = PagesOf(RenderedEntries)
        /\ StrictlyAscending(PagesOf(paste_log)))

C1_Witness ==
  /\ pc = "returned"
  /\ Len(pages_to_process) = 3
  /\ ~render_log[2].ok
  /\ PagesOf(paste_log) = <<0, 2>>
  /\ CountOf(status_log, Msg("ErrorSkip", 2, 0)) = 1

\* C2: once fitz.open has succeeded, the document is closed in every state in
\* which the pipeline has returned or raised.
C2_ClosedOnEveryExit ==
  (PipelineEnded /\ doc # "none") => doc = "closed"

\* C3: pages_to_process is strictly ascending; it is every index 0..N-1 with the
\* filter off and exactly the indices of the pages with an image with it on; with
\* the filter on and no page holding an image the conversion fails with
\* NoMatchingPages, nothing is rendered and nothing is saved.
ImageEntry(entry) == entry.outcome = "images"
ScanComplete == Len(scan_log) = page_count /\ \A i \in 1..Len(scan_log) : scan_log[i].outcome # "raises"

C3_Selection ==
  /\ StrictlyAscending(pages_to_process)
  /\ (~only_pages_with_images /\ pc \in {"render", "create", "paste", "returned"} =>
        /\ page_count >= 1
        /\ Len(pages_to_process) = page_count
        /\ \A i \in 1..page_count : pages_to_process[i] = i - 1)
  /\ (only_pages_with_images =>
        /\ PagesOf(scan_log) = [i \in 1..Len(scan_log) |-> i - 1]
        /\ pages_to_process = PagesOf(SelectSeq(scan_log, ImageEntry)))
  /\ (only_pages_with_images /\ pc \in {"render", "create", "paste", "returned"} =>
        ScanComplete)
  /\ (only_pages_with_images /\ pc # "scan" /\ page_count >= 1 /\ ScanComplete
        /\ SelectSeq(scan_log, ImageEntry) = <<>> =>
        /\ pc = "raised"
        /\ error = "NoMatchingPages"
        /\ render_log = <<>>
        /\ save_attempts = 0
        /\ ~saved)

C3_Witness ==
  /\ only_pages_with_images
  /\ pc = "render"
  /\ page_count = 3
  /\ pages_to_process = <<0, 2>>

\* C4: if every selected page fails to render, the conversion fails with
\* NoPagesRendered once all of them have been attempted, and no canvas is
\* created, nothing is pasted, no save is attempted and progress stays below 95.
EveryPageFailed ==
  /\ num_pages_to_render >= 1
  /\ Len(render_log) = num_pages_to_render
  /\ \A i \in 1..Len(render_log) : ~render_log[i].ok

C4_NoPagesRendered ==
  /\ (EveryPageFailed =>
        /\ final_image = NoImage
        /\ paste_log = <<>>
        /\ save_attempts = 0
        /\ ~saved
        /\ \A i \in 1..Len(progress_log) : ~FracLeq(Frac(95, 1), progress_log[i])
        /\ ~FracLeq(Frac(95, 1), progress_var)
        /\ (pc # "render" => pc = "raised" /\ error = "NoPagesRendered"))
  /\ (error = "NoPagesRendered" => EveryPageFailed /\ PagesOf(render_log) = pages_to_process)

C4_Witness ==
  /\ pc = "raised"
  /\ error = "NoPagesRendered"
  /\ Len(render_log) = 3

\* C5: the canvas is created with height the sum of the heights of the rendered
\* pages and width the largest of their widths (failed pages count for neither),
\* and its dimensions never change afterwards.
C5_CanvasDimensions ==
  /\ [](final_image # NoImage =>
          /\ RenderedEntries # <<>>
          /\ final_image.height = SumHeights(RenderedEntries)
          /\ final_image.width = WidestOf(RenderedEntries))
  /\ [](pc \in {"paste", "returned"} => final_image # NoImage)
  /\ [][(final_image # NoImage /\ ~PipelineEnded) => final_image' = final_image]_vars

C5_Witness ==
  /\ pc = "returned"
  /\ Len(render_log) = 3
  /\ render_log[1].ok /\ render_log[1].width = 2 /\ render_log[1].height = 2
  /\ ~render_log[2].ok
  /\ render_log[3].ok /\ render_log[3].width = 1 /\ render_log[3].height = 1
  /\ final_image = [width |-> 2, height |-> 3]

\* C6: every rendered page is pasted exactly once, in render order, at a y-offset
\* equal to the sum of the heights pasted before it; the pasted ranges are
\* contiguous and disjoint and after the last paste the offset is the canvas height.
C6_PasteLayout ==
  /\ Len(paste_log) <= Len(page_images)
  /\ \A i \in 1..Len(paste_log) :
       /\ paste_log[i].page = RenderedEntries[i].page
       /\ paste_log[i].height = RenderedEntries[i].height
       /\ paste_log[i].width = RenderedEntries[i].width
       /\ paste_log[i].y = SumHeights(SubSeq(RenderedEntries, 1, i - 1))
       /\ (i > 1 => paste_log[i].y = paste_log[i - 1].y + paste_log[i - 1].height)
       /\ \A j \in 1..Len(paste_log) :
            i < j => paste_log[i].y + paste_log[i].height <= paste_log[j].y
  /\ StrictlyAscending(PagesOf(paste_log))
  /\ (AfterPasteLoop =>
        /\ Len(paste_log) = Len(RenderedEntries)
        /\ current_y = final_image.height
        /\ paste_log[Len(paste_log)].y + paste_log[Len(paste_log)].height
             = final_image.height)

C6_Witness ==
  /\ pc = "returned"
  /\ Len(paste_log) = 3
  /\ paste_log[1].y = 0 /\ paste_log[2].y = 2 /\ paste_log[3].y = 3
  /\ final_image.height = 5

\* C7: every pasted page sits at x = floor((canvas width - page width) / 2), with
\* 0 <= x and x + page width <= canvas width; a page as wide as the canvas is at 0.
C7_Centering ==
  \A i \in 1..Len(paste_log) :
    LET gap == final_image.width - paste_log[i].width
        x == paste_log[i].x
    IN /\ gap >= 0
       /\ 2 * x <= gap /\ gap < 2 * x + 2
       /\ 0 <= x
       /\ x + paste_log[i].width <= final_image.width
       /\ (gap = 0 => x = 0)

C7_Witness ==
  /\ final_image.width = 3
  /\ \E i \in 1..Len(paste_log) : paste_log[i].width = 1 /\ paste_log[i].x = 1
  /\ \E i \in 1..Len(paste_log) : paste_log[i].width = 2 /\ paste_log[i].x = 0
  /\ \E i \in 1..Len(paste_log) : paste_log[i].width = 3 /\ paste_log[i].x = 0

\* C8: from the reset to 0 until the pipeline returns or raises, every value
\* written to the progress variable is in [0, 100] and not below the one written
\* before it, and 100 is written only after the image has been saved.
C8_ProgressMonotone ==
  /\ (pc # "idle" =>
        /\ progress_log # <<>>
        /\ progress_log[1] = Frac(0, 1)
        /\ progress_var = progress_log[Len(progress_log)])
  /\ \A i \in 1..Len(progress_log) :
       /\ FracLeq(Frac(0, 1), progress_log[i])
       /\ FracLeq(progress_log[i], Frac(100, 1))
       /\ (i > 1 => FracLeq(progress_log[i - 1], progress_log[i]))
       /\ (FracEq(progress_log[i], Frac(100, 1)) => saved /\ i = Len(progress_log))

C8_Witness ==
  /\ pc = "returned"
  /\ Len(render_log) = 3
  /\ ~render_log[2].ok
  /\ progress_log = <<Frac(0, 1), Frac(90, 3), Frac(180, 3), Frac(95, 1), Frac(100, 1)>>

\* C9: a DPI entry that is not a positive integer is rejected before anything is
\* opened: the pipeline is not entered, the button is not disabled and progress
\* is not touched.
NotPositiveIntegerTexts ==
  { <<"0">>, <<"-","5">>, <<"a","b","c">>, <<>>, <<"1","5","a">>, <<"-">>, <<"+","0">> }

C9_InvalidDpiRejected ==
  /\ [](pc # "idle" => dpi_var \notin NotPositiveIntegerTexts /\ dpi > 0)
  /\ [][(pc = "idle" /\ dpi_var \in NotPositiveIntegerTexts) =>
          /\ pc' = "idle"
          /\ doc' = "none"
          /\ convert_button' = convert_button
          /\ progress_var' = progress_var
          /\ UNCHANGED <<locals, logs>>
          /\ messagebox' \in {messagebox, "error_no_pdf", "error_no_output",
                              "error_invalid_dpi"}
          /\ (pdf_path_var # "" /\ output_path_var # "" /\ messagebox' # messagebox
                => messagebox' = "error_invalid_dpi")]_vars

C9_Witness ==
  /\ messagebox = "error_invalid_dpi"
  /\ dpi_var = <<"a","b","c">>
  /\ pc = "idle"
  /\ convert_button = "normal"
  /\ doc = "none"

\* C10: the document is closed after the last selected page has been attempted
\* and before the canvas is created: no canvas creation, paste or save happens
\* while it is open, and no page is loaded or rendered once it is closed.
C10_ClosedBeforeCompositing ==
  /\ [](pc \in {"create", "paste"} =>
          doc = "closed" /\ Len(render_log) = Len(pages_to_process))
  /\ [][(pc' # "idle" /\ (final_image' # final_image \/ paste_log' # paste_log
                           \/ save_attempts' # save_attempts))
          => doc = "closed" /\ doc' = "closed"]_vars
  /\ [][(pc' # "idle" /\ (scan_log' # scan_log \/ render_log' # render_log))
          => doc = "open"]_vars

C10_Witness ==
  /\ pc = "paste"
  /\ paste_log # <<>>
  /\ doc = "closed"
  /\ Len(render_log) = 3

====
